---- MODULE Spec2Model ----
\* Stock ledger of mahadev-trader-suite: the stored procedure decrement_stock
\* (supabase/migrations/20251115025811_*.sql) running in concurrent database
\* transactions against the stock_items table
\* (supabase/migrations/20251112052300_*.sql).
\*
\* Quantities are counted in thousandths (1 = 0.001), so that a numeric
\* argument finer than the DECIMAL(10,2) column can be told apart from a
\* multiple of 0.01 (Cent = 10 thousandths).
EXTENDS Integers, Sequences, FiniteSets, TLC

\* ---------------------------------------------------------------- bounds
\* number of decrement_stock calls issued in one behaviour
MaxCalls == 2
\* largest initial stock and largest whole-cent request, in cents
MaxCents == 2

\* ------------------------------------------------------- program constants
\* scale 2 of DECIMAL(10, 2): one column unit is 0.01 = 10 thousandths
Cent == 10

\* ------------------------------------------------------------ input sets
Users == {"U1", "U2"}
\* "A" and "B" are rows of stock_items, "Z" is an id no row has
ItemIds == {"A", "B", "Z"}
\* requests: two below one cent (0.004, 0.006) and the whole cents
ReqQuantities == {4, 6} \cup {k * Cent : k \in 1..MaxCents}
InitQuantities == {k * Cent : k \in 0..MaxCents}
CallIds == 1..MaxCalls

\* the message of RAISE EXCEPTION
InsufficientStock == "Insufficient stock or item not found"

VARIABLES
  stock_items,    \* committed rows of stock_items, by primary key
  customers,      \* committed rows of customers
  invoices,       \* committed rows of invoices
  invoice_items,  \* committed rows of invoice_items
  clock,          \* now(): logical time, one tick per transaction
  pc,             \* per call: idle, returning, done, failed
  args,           \* per call: [item, qty, caller, ts]
  written,        \* per call: the row versions its UPDATE wrote, uncommitted
  result,         \* per call: [kind |-> "none" | "value" | "error", ...]
  rowcount,       \* per call: {n} once its UPDATE has affected n rows
  seen,           \* per call: quantities of the row with the given id at the UPDATE
  hb,             \* <<d, c>>: call d had ended before call c was issued
  stock0,         \* the table before the first call
  page,           \* per browser tab: the state of the CreateInvoice component
  log,            \* per tab: the requests of its latest handleSaveInvoice run
  runs,           \* per tab: its handleSaveInvoice runs that passed validation
  touches,        \* edits of a quantity field during a run so far
  alerts,         \* the LowStockAlerts component of the dashboard
  dialog,         \* the StockRefillDialog component of the dashboard
  refills,        \* [quick, dialog]: refills submitted so far from either component;
                  \* added: by entry, the sum of the amounts of the refills served
  edits,          \* submissions of the stock form so far
  editor          \* the EditInvoice page and the delete dialog of the Invoices page

vars == <<stock_items, customers, invoices, invoice_items, clock, pc, args,
          written, result, rowcount, seen, hb, stock0, page, log, runs,
          touches, alerts, dialog, refills, edits, editor>>

tables == <<customers, invoices, invoice_items>>

\* the state of the database transactions of the direct callers
calls == <<pc, args, written, result, rowcount, seen, hb>>

\* the state kept in the browser
\* the state of the dashboard's refill components
shop == <<alerts, dialog, refills, edits, editor>>

client == <<page, log, runs, touches, alerts, dialog, refills, edits, editor>>

\* ------------------------------------------------------------ the schema
StockRow(id, owner, name, price, q) ==
  [id |-> id, user_id |-> owner, name |-> name, price |-> price,
   quantity |-> q, unit_type |-> "Kg", created_at |-> 0, updated_at |-> 0]

\* assignment to a DECIMAL(10,2) column: round half away from zero to scale 2
\* (precision 10 is out of reach: a request never raises a quantity here)
Round2(x) ==
  LET a == IF x < 0 THEN -x ELSE x
      r == a % Cent
      m == IF 2 * r >= Cent THEN a - r + Cent ELSE a - r
  IN  IF x < 0 THEN -m ELSE m

NoResult == [kind |-> "none"]
NoArgs == [item |-> "Z", qty |-> 0, caller |-> "U1", ts |-> 0]

\* the browser tabs that can show the CreateInvoice page
Tabs == {"t1", "t2"}

\* CreateInvoice before it is mounted: useState's initial values
Unmounted ==
  [pc |-> "away", stockItems |-> {}, invoiceItems |-> <<>>, saving |-> FALSE,
   newCustomerMode |-> FALSE, customerId |-> 0, invoice |-> 0, item |-> 0,
   toast |-> ""]

NoCalls ==
  /\ pc = [c \in CallIds |-> "idle"]
  /\ args = [c \in CallIds |-> NoArgs]
  /\ written = [c \in CallIds |-> {}]
  /\ result = [c \in CallIds |-> NoResult]
  /\ rowcount = [c \in CallIds |-> {}]
  /\ seen = [c \in CallIds |-> {}]
  /\ hb = {}

\* the EditInvoice page before an invoice is opened, and no invoice chosen
\* for deletion in the list
Closed ==
  [pc |-> "away", id |-> 0, stockItems |-> {}, invoiceItems |-> <<>>,
   saving |-> FALSE, toast |-> "", old |-> {}, new |-> {}, updates |-> 0,
   invoiceToDelete |-> 0, deleted |-> FALSE]

NoClient ==
  /\ page = [t \in Tabs |-> Unmounted]
  /\ log = [t \in Tabs |-> <<>>]
  /\ runs = [t \in Tabs |-> 0]
  /\ touches = 0
  /\ alerts = [mounted |-> FALSE, lowStockItems |-> {}]
  /\ dialog = [open |-> FALSE, stockItems |-> {}, updates |-> {}, errors |-> FALSE]
  /\ refills = [quick |-> 0, dialog |-> 0, added |-> [id \in {"A", "B"} |-> 0]]
  /\ edits = 0
  /\ editor = Closed

Init ==
  /\ \E qa \in InitQuantities, qb \in InitQuantities :
       stock_items = [id \in {"A", "B"} |->
          IF id = "A" THEN StockRow("A", "U1", "rice", 5000, qa)
                      ELSE StockRow("B", "U1", "oil", 12000, qb)]
  /\ stock0 = stock_items
  /\ customers = {[id |-> "c1", user_id |-> "U1", name |-> "Asha",
                   mobile_number |-> "9000000001"]}
  /\ invoices = {[id |-> "i1", user_id |-> "U1", customer_id |-> "c1",
                  payment_type |-> "Cash", total_amount |-> 5000]}
  /\ invoice_items = {[id |-> "l1", invoice_id |-> "i1", stock_item_id |-> "A",
                       item_name |-> "rice", price |-> 5000, quantity |-> 1000,
                       unit_type |-> "Kg", subtotal |-> 5000]}
  /\ clock = 1
  /\ NoCalls
  /\ NoClient

\* ------------------------------------------------ decrement_stock, the body
\* Faulty variants of the WHERE clause, used to test the properties below:
\* without the stock condition, without the owner condition, without the id
\* condition, and with a strict comparison.
WhereClauseNoQuantity(row, item, qty, caller) ==
  row.id = item /\ row.user_id = caller

WhereClauseNoOwner(row, item, qty, caller) ==
  row.id = item /\ row.quantity >= qty

WhereClauseNoId(row, item, qty, caller) ==
  row.user_id = caller /\ row.quantity >= qty

WhereClauseStrict(row, item, qty, caller) ==
  row.id = item /\ row.user_id = caller /\ row.quantity > qty

\* WHERE id = _stock_item_id AND user_id = auth.uid() AND quantity >= _quantity
WhereClause(row, item, qty, caller) ==
  /\ row.id = item
  /\ row.user_id = caller
  /\ row.quantity >= qty

\* SET quantity = quantity - _quantity, before the column's type is applied
SetClause(row, qty) == row.quantity - qty

\* BEFORE UPDATE trigger update_stock_items_updated_at: NEW.updated_at = now()
update_updated_at_column(new, ts) == [new EXCEPT !.updated_at = ts]

\* the primary keys of the rows the WHERE clause selects
Matched(tbl, item, qty, caller) ==
  {k \in DOMAIN tbl : WhereClause(tbl[k], item, qty, caller)}

\* the new row versions the UPDATE statement writes
UpdateStmt(tbl, item, qty, caller, ts) ==
  {update_updated_at_column(
     [tbl[k] EXCEPT !.quantity = Round2(SetClause(tbl[k], qty))], ts) :
   k \in Matched(tbl, item, qty, caller)}

\* Faulty variant of the check: IF _new_quantity <= 0 THEN RAISE ...; with no
\* row updated the comparison is NULL, nothing is raised and NULL is returned.
VerdictRaiseOnZero(new_quantity) ==
  IF new_quantity = {}
    THEN [kind |-> "null"]
    ELSE IF \E q \in new_quantity : q <= 0
      THEN [kind |-> "error", message |-> InsufficientStock]
      ELSE [kind |-> "value", value |-> CHOOSE q \in new_quantity : TRUE]

\* IF _new_quantity IS NULL THEN RAISE EXCEPTION ... END IF; RETURN _new_quantity
\* (RETURNING ... INTO leaves _new_quantity NULL when no row was updated)
Verdict(new_quantity) ==
  IF new_quantity = {}
    THEN [kind |-> "error", message |-> InsufficientStock]
    ELSE [kind |-> "value", value |-> CHOOSE q \in new_quantity : TRUE]

\* Faulty variant of the function: no stock condition, the result clamped at 0
\* (SET quantity = GREATEST(quantity - _quantity, 0)).
decrement_stock_clamped(tbl, item, qty, caller, ts) ==
  LET hit == {k \in DOMAIN tbl : tbl[k].id = item /\ tbl[k].user_id = caller}
      clamp(x) == IF x < 0 THEN 0 ELSE x
      upd == {update_updated_at_column(
                [tbl[k] EXCEPT !.quantity = clamp(Round2(SetClause(tbl[k], qty)))],
                ts) : k \in hit}
  IN  [written |-> upd, rowcount |-> {Cardinality(upd)},
       result |-> Verdict({r.quantity : r \in upd})]

\* the whole function on table tbl: the row versions written, the number of
\* rows the UPDATE affected and what the caller gets
decrement_stock(tbl, item, qty, caller, ts) ==
  LET upd == UpdateStmt(tbl, item, qty, caller, ts)
  IN  [written |-> upd, rowcount |-> {Cardinality(upd)},
       result |-> Verdict({r.quantity : r \in upd})]

\* Faulty variant: the read and the write of the quantity are not serialized
\* (a read-then-write in place of the single conditional UPDATE).
RowLockedNever(k, c) == FALSE

\* the row is write-locked by an open transaction other than c's: an UPDATE
\* of a row holds the row's lock until its transaction ends
RowLocked(k, c) ==
  \E d \in CallIds \ {c} : \E r \in written[d] : r.id = k

\* the table with the given row versions in place of the rows they replace
ApplyRows(tbl, rows) ==
  [k \in DOMAIN tbl |->
     IF \E r \in rows : r.id = k THEN CHOOSE r \in rows : r.id = k ELSE tbl[k]]

\* ---------------------------------------------------------------- actions
Ended(c) == pc[c] \in {"done", "failed"}

\* One supabase.rpc('decrement_stock', ...) by `caller`: the function body runs
\* in a transaction of its own. The UPDATE waits while a row it selects is
\* locked; RAISE EXCEPTION rolls the transaction back, discarding what it
\* wrote; otherwise the new row versions stay uncommitted until Commit.
DecrementStock(c, item, qty, caller) ==
  /\ pc[c] = "idle"
  /\ \A d \in CallIds : d < c => pc[d] # "idle"
  /\ \A k \in Matched(stock_items, item, qty, caller) : ~RowLocked(k, c)
  /\ LET out == decrement_stock(stock_items, item, qty, caller, clock)
         raised == out.result.kind = "error"
     IN  /\ written' = [written EXCEPT ![c] = IF raised THEN {} ELSE out.written]
         /\ rowcount' = [rowcount EXCEPT ![c] = out.rowcount]
         /\ result' = [result EXCEPT ![c] = out.result]
         /\ pc' = [pc EXCEPT ![c] = IF raised THEN "failed" ELSE "returning"]
  /\ args' = [args EXCEPT ![c] =
                [item |-> item, qty |-> qty, caller |-> caller, ts |-> clock]]
  /\ seen' = [seen EXCEPT ![c] =
                {stock_items[k].quantity : k \in DOMAIN stock_items \cap {item}}]
  /\ clock' = clock + 1
  /\ hb' = hb \cup {<<d, c>> : d \in {e \in CallIds : Ended(e)}}
  /\ UNCHANGED <<stock_items, tables, stock0, client>>

\* the function returned: the transaction commits, its row versions become
\* the committed ones, its locks are released and the caller gets the value
Commit(c) ==
  /\ pc[c] = "returning"
  /\ stock_items' = ApplyRows(stock_items, written[c])
  /\ written' = [written EXCEPT ![c] = {}]
  /\ pc' = [pc EXCEPT ![c] = "done"]
  /\ UNCHANGED <<tables, clock, args, result, rowcount, seen, hb, stock0, client>>

Next ==
  \E c \in CallIds :
    \/ \E item \in ItemIds, qty \in ReqQuantities, caller \in Users :
         DecrementStock(c, item, qty, caller)
    \/ Commit(c)

Spec == Init /\ [][Next]_vars

\* ------------------------------------------------------------ properties
Invoked(c) == pc[c] # "idle"
Succeeded(c) == pc[c] \in {"returning", "done"}
Failed(c) == pc[c] = "failed"
\* every call issued so far has ended: no transaction is open
Quiescent == \A c \in CallIds : pc[c] \in {"idle", "done", "failed"}
Exists(c) == args[c].item \in DOMAIN stock_items
ByOwner(c) == Exists(c) /\ stock_items[args[c].item].user_id = args[c].caller
WrongOwner(c) == Exists(c) /\ stock_items[args[c].item].user_id # args[c].caller
\* the entry held less than requested when the call's UPDATE ran
Short(c) == \E q \in seen[c] : q < args[c].qty
InsufficientStockError == [kind |-> "error", message |-> InsufficientStock]
\* c and d overlapped: neither had ended when the other was issued
Overlap(c, d) == c # d /\ <<c, d>> \notin hb /\ <<d, c>> \notin hb

RECURSIVE SumQty(_)
SumQty(S) ==
  IF S = {} THEN 0
  ELSE LET c == CHOOSE x \in S : TRUE IN args[c].qty + SumQty(S \ {c})

\* C1: the quantity of every stock entry is >= 0 in every reachable state, in
\* the committed rows a concurrent reader sees and in the uncommitted row
\* versions alike, whatever decrement_stock calls (quantity > 0) interleave.
C1_NeverNegative ==
  /\ \A k \in DOMAIN stock_items : stock_items[k].quantity >= 0
  /\ \A c \in CallIds : \A r \in written[c] : r.quantity >= 0

\* C1 witness: two owner calls on A, the first emptied it, the second, which
\* the initial stock would have covered, failed.
C1_Witness ==
  /\ MaxCalls >= 2
  /\ pc[1] = "done" /\ pc[2] = "failed"
  /\ args[1].item = "A" /\ args[2].item = "A"
  /\ ByOwner(1) /\ ByOwner(2)
  /\ args[2].qty <= stock0["A"].quantity
  /\ stock0["A"].quantity > 0
  /\ stock_items["A"].quantity = 0

\* C2 (as claimed): two owner calls on one entry, each requesting no more
\* than the stock but together more than it: exactly one succeeds, exactly
\* one fails with the insufficient-stock error, and the final quantity is the
\* stock minus the successful request.
C2_ExactlyOneSucceeds ==
  \A k \in DOMAIN stock_items :
    ( /\ MaxCalls >= 2
      /\ Quiescent
      /\ \A c \in CallIds : Invoked(c) <=> c \in {1, 2}
      /\ \A c \in {1, 2} : args[c].item = k /\ ByOwner(c)
                           /\ args[c].qty <= stock0[k].quantity
      /\ args[1].qty + args[2].qty > stock0[k].quantity )
    => \E c \in {1, 2} :
         /\ pc[c] = "done"
         /\ pc[3 - c] = "failed"
         /\ result[3 - c] = InsufficientStockError
         /\ stock_items[k].quantity = stock0[k].quantity - args[c].qty

\* the same restricted to requests that are multiples of 0.01
C2_WholeCents ==
  (\A c \in CallIds : Invoked(c) => args[c].qty % Cent = 0)
  => C2_ExactlyOneSucceeds

\* the calls issued so far, and the orders of them that keep every call that
\* had ended before another was issued in front of that other
InvokedCalls == {c \in CallIds : Invoked(c)}
Orders ==
  {s \in [1..Cardinality(InvokedCalls) -> InvokedCalls] :
     /\ \A i, j \in DOMAIN s : i # j => s[i] # s[j]
     /\ \A i, j \in DOMAIN s : i < j => <<s[j], s[i]>> \notin hb}

\* the calls s[i], s[i+1], ... run one at a time from table tbl, each as one
\* indivisible step, give the results the calls got and end in the committed
\* table
RECURSIVE SeqRun(_, _, _)
SeqRun(s, i, tbl) ==
  IF i > Cardinality(InvokedCalls)
    THEN tbl = stock_items
    ELSE LET a == args[s[i]]
             out == decrement_stock(tbl, a.item, a.qty, a.caller, a.ts)
         IN  /\ out.result = result[s[i]]
             /\ SeqRun(s, i + 1,
                  IF out.result.kind = "error" THEN tbl
                  ELSE ApplyRows(tbl, out.written))

\* C3: decrement_stock is linearizable: whenever no call is in progress, the
\* results of the calls issued so far and the committed table are those of
\* running the same calls one after another in some order that respects
\* their real-time order.
C3_Linearizable ==
  Quiescent => \E s \in Orders : SeqRun(s, 1, stock0)

\* C3 witness: two overlapping owner calls on A have both ended, the first
\* committed its decrement and the second failed.
C3_Witness ==
  /\ MaxCalls >= 2
  /\ Quiescent
  /\ Overlap(1, 2)
  /\ args[1].item = "A" /\ args[2].item = "A"
  /\ ByOwner(1) /\ ByOwner(2)
  /\ pc[1] = "done" /\ pc[2] = "failed"
  /\ stock_items["A"].quantity < stock0["A"].quantity

\* C4 (as claimed): when all calls issued are owner calls on one entry and
\* their quantities sum to no more than its stock, all of them succeed and the
\* final quantity is the initial quantity minus the sum.
C4_AllSucceed ==
  \A k \in DOMAIN stock_items :
    ( /\ Quiescent
      /\ Cardinality(InvokedCalls) >= 2
      /\ \A c \in InvokedCalls : args[c].item = k /\ ByOwner(c)
      /\ SumQty(InvokedCalls) <= stock0[k].quantity )
    => /\ \A c \in InvokedCalls : pc[c] = "done"
       /\ stock_items[k].quantity = stock0[k].quantity - SumQty(InvokedCalls)

\* the same restricted to requests that are multiples of 0.01
C4_WholeCents ==
  (\A c \in CallIds : Invoked(c) => args[c].qty % Cent = 0)
  => C4_AllSucceed

\* C5: a call by a caller who is not the entry's owner fails with the
\* insufficient-stock error, writes no row version, and an entry that only
\* such calls were aimed at keeps its initial quantity, whatever the stock and
\* the requested quantity.
C5_WrongOwnerFails ==
  /\ \A c \in CallIds :
       Invoked(c) /\ WrongOwner(c) =>
         /\ pc[c] = "failed"
         /\ result[c] = InsufficientStockError
         /\ written[c] = {}
  /\ \A k \in DOMAIN stock_items :
       (\A c \in InvokedCalls : args[c].item = k => WrongOwner(c))
       => stock_items[k] = stock0[k]

\* C5 witness: a call by another user failed on an entry that held at least
\* the requested quantity.
C5_Witness ==
  \E c \in CallIds :
    /\ pc[c] = "failed"
    /\ WrongOwner(c)
    /\ \E q \in seen[c] : q >= args[c].qty

\* why a call cannot be served: no row has the id, the row is another user's,
\* or the row held less than requested when the UPDATE ran
Cause(c) ==
  IF ~Exists(c) THEN "missing"
  ELSE IF WrongOwner(c) THEN "owner"
  ELSE IF Short(c) THEN "short"
  ELSE "none"

\* C6: a call that cannot be served (entry missing, wrong owner, insufficient
\* stock) fails and writes no row version, a failed call has affected no row,
\* and a committed row differs from its initial value only if a successful
\* call on that row has committed.
C6_FailureLeavesStock ==
  /\ \A c \in InvokedCalls : Cause(c) # "none" => Failed(c)
  /\ \A c \in CallIds : Failed(c) => written[c] = {} /\ rowcount[c] = {0}
  /\ \A k \in DOMAIN stock_items :
       stock_items[k] # stock0[k] =>
         \E c \in CallIds : pc[c] = "done" /\ args[c].item = k

\* C6 witness: an owner call failed for insufficient stock on an entry that
\* holds stock, and the entry is exactly as it was initially.
C6_Witness ==
  \E c \in CallIds :
    /\ Failed(c) /\ ByOwner(c) /\ Short(c)
    /\ stock0[args[c].item].quantity > 0
    /\ stock_items[args[c].item] = stock0[args[c].item]

\* C7: an owner call requesting exactly the quantity the entry holds succeeds,
\* returns 0 and leaves 0; one requesting 0.01 more fails; and on an empty
\* entry every call with a positive quantity fails.
C7_Boundary ==
  \A c \in InvokedCalls :
    ByOwner(c) =>
      \A q \in seen[c] :
        /\ args[c].qty = q =>
             /\ Succeeded(c)
             /\ result[c] = [kind |-> "value", value |-> 0]
             /\ pc[c] = "returning" =>
                  written[c] # {} /\ \A r \in written[c] : r.quantity = 0
             /\ pc[c] = "done" => stock_items[args[c].item].quantity = 0
        /\ args[c].qty = q + Cent =>
             Failed(c) /\ result[c] = InsufficientStockError
        /\ (q = 0 /\ args[c].qty > 0) => Failed(c)

\* C7 witness: an owner call took all of a stocked entry, and a later owner
\* call for 0.01 on the emptied entry failed.
C7_Witness ==
  \E c, d \in CallIds :
    /\ <<c, d>> \in hb
    /\ args[c].item = args[d].item
    /\ ByOwner(c) /\ ByOwner(d)
    /\ pc[c] = "done" /\ seen[c] = {args[c].qty}
    /\ Failed(d) /\ seen[d] = {0} /\ args[d].qty = Cent

\* C8 (as claimed): a successful call with quantity q on an entry holding Q
\* when its UPDATE ran writes Q - q and returns that value, which is never
\* negative.
C8_ReturnsDifference ==
  \A c \in CallIds :
    Succeeded(c) =>
      \A q \in seen[c] :
        /\ result[c].kind = "value"
        /\ result[c].value = q - args[c].qty
        /\ result[c].value >= 0
        /\ \A r \in written[c] : r.quantity = q - args[c].qty

\* the same restricted to requests that are multiples of 0.01
C8_WholeCents ==
  (\A c \in CallIds : Invoked(c) => args[c].qty % Cent = 0)
  => C8_ReturnsDifference

\* two versions of a row agree on everything but quantity and updated_at
SameButQuantity(old, new) ==
  [new EXCEPT !.quantity = 0, !.updated_at = 0]
    = [old EXCEPT !.quantity = 0, !.updated_at = 0]

\* C9: every step leaves customers, invoices and invoice_items alone; a
\* committed stock row changes only when a call on that very row commits, and
\* then only in quantity and updated_at; the row versions a call writes are
\* versions of the row it names, changed in the same two fields only.
C9_Frame ==
  [][ /\ customers' = customers
      /\ invoices' = invoices
      /\ invoice_items' = invoice_items
      /\ DOMAIN stock_items' = DOMAIN stock_items
      /\ \A k \in DOMAIN stock_items :
           stock_items'[k] # stock_items[k] =>
             /\ \E c \in CallIds :
                  pc[c] = "returning" /\ pc'[c] = "done" /\ args[c].item = k
             /\ SameButQuantity(stock_items[k], stock_items'[k])
      /\ \A c \in CallIds : \A r \in written'[c] :
           /\ r.id = args'[c].item
           /\ SameButQuantity(stock_items[r.id], r)
    ]_vars

\* C9 witness: a call on A has committed: A has a lower quantity and the
\* call's timestamp, B is as it was initially.
C9_Witness ==
  \E c \in CallIds :
    /\ pc[c] = "done" /\ args[c].item = "A"
    /\ stock_items["A"].quantity < stock0["A"].quantity
    /\ stock_items["A"].updated_at = args[c].ts
    /\ stock_items["B"] = stock0["B"]

\* C10: a call gets an error exactly when its UPDATE affected no row, the
\* error is always the one insufficient-stock error, and each of the three
\* causes (missing entry, wrong owner, too little stock) yields it.
C10_OneErrorKind ==
  \A c \in InvokedCalls :
    /\ result[c].kind = "error" <=> rowcount[c] = {0}
    /\ result[c].kind = "error" => result[c] = InsufficientStockError /\ Failed(c)
    /\ Cause(c) # "none" => result[c] = InsufficientStockError

\* C10 witness: two calls failed for different causes with the same error.
C10_Witness ==
  \E c, d \in CallIds :
    /\ Failed(c) /\ Failed(d)
    /\ Cause(c) # "none" /\ Cause(d) # "none" /\ Cause(c) # Cause(d)
    /\ result[c] = result[d]

\* =================================================== the CreateInvoice page
\* src/pages/CreateInvoice.tsx, one component instance per browser tab, all
\* tabs signed in as the owner of the stock. A JavaScript number is a set:
\* {n} is the number n (in thousandths), {} is NaN, so that every comparison
\* with NaN is false as in JavaScript.

\* ------------------------------------------------------- program constants
\* quantity: 1 of a line that addItemToInvoice appends
DefaultQuantity == 1000
\* .max(999999.99) of invoiceItemSchema.price
MaxPrice == 999999990

\* ---------------------------------------------------------------- bounds
\* handleSaveInvoice runs of one tab that pass validation
MaxRuns == 1
\* edits of a quantity field while a handleSaveInvoice run is under way
MaxTouches == 1

\* ------------------------------------------------------------ input sets
SessionUser == "U1"
NaN == {}
\* parseFloat(e.target.value) of the quantity field: NaN for an emptied
\* field, 0 and 0.01
FieldQuantities == {NaN, {0}, {Cent}}
\* the customer part of the form when Save is pressed: nothing chosen, an
\* existing customer, a valid new customer, a new customer that fails
\* newCustomerSchema
CustomerForms == {"none", "selected", "new", "new_invalid"}
\* what can happen to a request on the way: it and its response arrive, it
\* never reaches the database, or it is served and its response is lost
Deliveries == {"delivered", "request_lost", "response_lost"}

FetchFailed == "Failed to fetch"
NotNullViolation == "null value violates not-null constraint"
InvoiceCreated == "Invoice created successfully"

\* ------------------------------------------------------- pure functions
\* price * quantity of two numbers in thousandths (prices are whole units)
Mul(p, q) == (p * q) \div 1000

\* invoiceItemSchema.parse({quantity, price}) does not throw:
\* z.number() rejects NaN, positive() rejects 0 and below
invoiceItemSchema(item) ==
  /\ \E q \in item.quantity : q > 0
  /\ item.price > 0
  /\ item.price <= MaxPrice

\* the line that addItemToInvoice appends for a stock item of the snapshot
NewLine(item) ==
  [stock_item_id |-> item.id, item_name |-> item.name, price |-> item.price,
   quantity |-> {DefaultQuantity}, unit_type |-> item.unit_type,
   available_quantity |-> item.quantity]

\* filteredStockItems with an empty search term
filteredStockItems(p) == {item \in p.stockItems : item.quantity > 0}

RECURSIVE SumLines(_, _)
SumLines(items, i) ==
  IF i > Len(items) THEN 0
  ELSE Mul(items[i].price, CHOOSE q \in items[i].quantity : TRUE)
         + SumLines(items, i + 1)

\* calculateTotal(): NaN as soon as one quantity is NaN
calculateTotal(items) ==
  IF \E i \in 1..Len(items) : items[i].quantity = NaN
    THEN NaN ELSE {SumLines(items, 1)}

\* Faulty variant: the loop over the lines is missing from the validation.
ValidateCustomerOnly(items, form) ==
  IF form = "none" THEN "Please select or add a customer"
  ELSE IF form = "new_invalid" THEN "Customer name is required"
  ELSE ""

\* the validation at the head of handleSaveInvoice: the description of the
\* toast it ends with, "" when the submission passes
Validate(items, form) ==
  IF form = "none" THEN "Please select or add a customer"
  ELSE IF Len(items) = 0 THEN "Please add at least one item to the invoice"
  ELSE IF \E i \in 1..Len(items) : ~invoiceItemSchema(items[i])
            \/ \E q \in items[i].quantity : q > items[i].available_quantity
    THEN LET i == CHOOSE j \in 1..Len(items) :
                    /\ ~invoiceItemSchema(items[j])
                         \/ \E q \in items[j].quantity :
                              q > items[j].available_quantity
                    /\ \A k \in 1..(j - 1) :
                         /\ invoiceItemSchema(items[k])
                         /\ ~\E q \in items[k].quantity :
                               q > items[k].available_quantity
         IN  IF invoiceItemSchema(items[i])
               THEN "Cannot exceed available stock"
               ELSE "Quantity must be positive"
  ELSE IF form = "new_invalid" THEN "Customer name is required"
  ELSE ""

\* the row of invoice_items the loop inserts for a line, as the DECIMAL(10,2)
\* columns store it
ItemRow(id, invoice, item) ==
  LET q == CHOOSE n \in item.quantity : TRUE
  IN  [id |-> id, invoice_id |-> invoice, stock_item_id |-> item.stock_item_id,
       item_name |-> item.item_name, price |-> item.price,
       quantity |-> Round2(q), unit_type |-> item.unit_type,
       subtotal |-> Round2(Mul(item.price, q))]

\* decrement_stock called with a JavaScript number: NaN travels as the JSON
\* null, and quantity >= NULL selects no row
rpc_decrement_stock(tbl, item, quantity, caller, ts) ==
  IF quantity = NaN
    THEN [written |-> {}, rowcount |-> {0}, result |-> Verdict({})]
    ELSE decrement_stock(tbl, item, CHOOSE n \in quantity : TRUE, caller, ts)

\* Faulty variant: a failed call gives back what the earlier calls have taken.
SettleRestoring(tbl, out) ==
  IF out.result.kind = "error" THEN stock0 ELSE ApplyRows(tbl, out.written)

\* the end of the function's transaction: RAISE EXCEPTION rolls it back,
\* RETURN commits the row versions it wrote
Settle(tbl, out) ==
  IF out.result.kind = "error" THEN tbl ELSE ApplyRows(tbl, out.written)

\* Faulty variant: setSaving(false) is the last statement of the try block
\* and there is no finally block.
EndRunStillSaving(p, message) ==
  [p EXCEPT !.pc = "editing", !.toast = message]

\* Faulty variant: the success toast and navigate("/invoices") come after
\* the try statement, so they are reached from the catch block as well.
EndRunSaved(p, message) ==
  [Unmounted EXCEPT !.toast = InvoiceCreated, !.invoice = p.invoice]

\* catch { toast(error.message) } finally { setSaving(false) }
EndRun(p, message) ==
  [p EXCEPT !.pc = "editing", !.saving = FALSE, !.toast = message]

\* Faulty variant: the loop calls decrement_stock again after a stockError.
OnStockErrorRetry(p, message) == [p EXCEPT !.pc = "rpc"]

\* Faulty variant: the loop goes on with the next line after a stockError.
OnStockErrorSkip(p, message) ==
  IF p.item < Len(p.invoiceItems)
    THEN [p EXCEPT !.pc = "insertItem", !.item = p.item + 1]
    ELSE EndRun(p, message)

\* what the loop does when decrement_stock has returned stockError: throw
OnStockError(p, message) == EndRun(p, message)

\* Faulty variant: the loop is left after its first line.
OnStockDoneFirst(p) ==
  [Unmounted EXCEPT !.toast = InvoiceCreated, !.invoice = p.invoice]

\* what the loop does after a line's decrement_stock has succeeded: the next
\* line, or the success toast and navigate("/invoices") after the last one
OnStockDone(p) ==
  IF p.item < Len(p.invoiceItems)
    THEN [p EXCEPT !.pc = "insertItem", !.item = p.item + 1]
    ELSE [Unmounted EXCEPT !.toast = InvoiceCreated, !.invoice = p.invoice]

\* ---------------------------------------------------------------- actions
\* the page is opened: checkAuthAndFetchData -> fetchStockItems
Mount(t) ==
  /\ page[t].pc \in {"away", "editing"}
  /\ runs[t] < MaxRuns
  /\ page' = [page EXCEPT ![t] =
       [Unmounted EXCEPT !.pc = "editing",
          !.stockItems = {stock_items[k] : k \in
             {j \in DOMAIN stock_items : stock_items[j].user_id = SessionUser}}]]
  /\ log' = [log EXCEPT ![t] = <<>>]
  /\ UNCHANGED <<stock_items, tables, clock, calls, stock0, runs, touches, shop>>

\* Faulty variant: no look-up of the item among the lines of the draft.
addItemToInvoiceAgain(t, id) ==
  /\ page[t].pc = "editing"
  /\ runs[t] < MaxRuns
  /\ \E item \in filteredStockItems(page[t]) : item.id = id
  /\ LET p == page[t]
         item == CHOOSE i \in filteredStockItems(p) : i.id = id
     IN  page' = [page EXCEPT ![t] =
           [p EXCEPT !.invoiceItems = Append(@, NewLine(item))]]
  /\ UNCHANGED <<stock_items, tables, clock, calls, stock0, log, runs, touches, shop>>

addItemToInvoice(t, id) ==
  /\ page[t].pc = "editing"
  /\ runs[t] < MaxRuns
  /\ \E item \in filteredStockItems(page[t]) : item.id = id
  /\ LET p == page[t]
         item == CHOOSE i \in filteredStockItems(p) : i.id = id
         existing == \E i \in 1..Len(p.invoiceItems) :
                        p.invoiceItems[i].stock_item_id = item.id
     IN  page' = [page EXCEPT ![t] =
           IF existing
             THEN p
             ELSE [p EXCEPT !.invoiceItems = Append(@, NewLine(item))]]
  /\ UNCHANGED <<stock_items, tables, clock, calls, stock0, log, runs, touches, shop>>

\* The quantity field stays enabled while handleSaveInvoice is running (only
\* the Save button is disabled), and the line object is changed in place: the
\* running loop reads the new quantity.
updateItemQuantity(t, index, quantity) ==
  /\ page[t].pc # "away"
  /\ IF page[t].saving THEN touches < MaxTouches ELSE runs[t] < MaxRuns
  /\ index \in 1..Len(page[t].invoiceItems)
  /\ LET p == page[t]
     IN  page' = [page EXCEPT ![t] =
           IF \E q \in quantity : q <= 0
             THEN p
           ELSE IF \E q \in quantity : q > p.invoiceItems[index].available_quantity
             THEN p
           ELSE [p EXCEPT !.invoiceItems[index].quantity = quantity]]
  /\ touches' = IF page[t].saving THEN touches + 1 ELSE touches
  /\ UNCHANGED <<stock_items, tables, clock, calls, stock0, log, runs, shop>>

\* (adding and removing lines during a run build a new array and leave the
\* array the run iterates over as it is: they are taken between runs only)
removeItem(t, index) ==
  /\ page[t].pc = "editing"
  /\ runs[t] < MaxRuns
  /\ index \in 1..Len(page[t].invoiceItems)
  /\ page' = [page EXCEPT ![t].invoiceItems =
       SubSeq(@, 1, index - 1) \o SubSeq(@, index + 1, Len(@))]
  /\ UNCHANGED <<stock_items, tables, clock, calls, stock0, log, runs, touches, shop>>

\* handleSaveInvoice up to its first await: validation, then setSaving(true).
\* A rejected submission shows a toast and returns: no state of the page or
\* of the database changes.
Save(t, form) ==
  /\ page[t].pc = "editing"
  /\ ~page[t].saving
  /\ LET p == page[t]
         message == Validate(p.invoiceItems, form)
     IN  IF message # ""
           THEN UNCHANGED <<page, log, runs>>
           ELSE /\ runs[t] < MaxRuns
                /\ page' = [page EXCEPT ![t] =
                     [p EXCEPT !.pc = "getUser", !.saving = TRUE,
                        !.newCustomerMode = (form = "new"),
                        !.customerId = IF form = "new" THEN 0 ELSE 1,
                        !.invoice = 0, !.item = 0]]
                /\ log' = [log EXCEPT ![t] =
                     <<[op |-> "save", line |-> Len(p.invoiceItems),
                        item |-> "", qty |-> NaN,
                        served |-> FALSE, ok |-> TRUE]>>]
                /\ runs' = [runs EXCEPT ![t] = @ + 1]
  /\ UNCHANGED <<stock_items, tables, clock, calls, stock0, touches, shop>>

\* await supabase.auth.getUser(); if (!user) return
GetUser(t, user) ==
  /\ page[t].pc = "getUser"
  /\ LET p == page[t]
     IN  page' = [page EXCEPT ![t] =
           IF user = "null"
             THEN [p EXCEPT !.pc = "editing", !.saving = FALSE]
             ELSE [p EXCEPT !.pc = IF p.newCustomerMode THEN "insertCustomer"
                                                        ELSE "insertInvoice"]]
  /\ UNCHANGED <<stock_items, tables, clock, calls, stock0, log, runs, touches, shop>>

\* await supabase.from("customers").insert(...); if (customerError) throw
InsertCustomer(t, delivery) ==
  /\ page[t].pc = "insertCustomer"
  /\ LET served == delivery # "request_lost"
         new == Cardinality(customers) + 1
     IN  /\ customers' = IF served
              THEN customers \cup {[id |-> new, user_id |-> SessionUser,
                                    name |-> "Ravi", mobile_number |-> "9000000002"]}
              ELSE customers
         /\ page' = [page EXCEPT ![t] =
              IF delivery = "delivered"
                THEN [@ EXCEPT !.pc = "insertInvoice", !.customerId = new]
                ELSE EndRun(@, FetchFailed)]
  /\ UNCHANGED <<stock_items, invoices, invoice_items, clock, calls, stock0,
                 log, runs, touches, shop>>

\* await supabase.from("invoices").insert(...); if (invoiceError) throw
InsertInvoice(t, delivery) ==
  /\ page[t].pc = "insertInvoice"
  /\ LET p == page[t]
         total == calculateTotal(p.invoiceItems)
         new == Cardinality(invoices) + 1
         served == delivery # "request_lost" /\ total # NaN
     IN  /\ invoices' = IF served
              THEN invoices \cup {[id |-> new, user_id |-> SessionUser,
                      customer_id |-> p.customerId, payment_type |-> "Cash",
                      total_amount |-> Round2(CHOOSE n \in total : TRUE)]}
              ELSE invoices
         /\ page' = [page EXCEPT ![t] =
              IF delivery = "request_lost" THEN EndRun(p, FetchFailed)
              ELSE IF total = NaN THEN EndRun(p, NotNullViolation)
              ELSE IF delivery = "response_lost" THEN EndRun(p, FetchFailed)
              ELSE [p EXCEPT !.pc = "insertItem", !.invoice = new, !.item = 1]]
  /\ UNCHANGED <<stock_items, customers, invoice_items, clock, calls, stock0,
                 log, runs, touches, shop>>

\* the loop body's first await: insert the invoice_items row of the line;
\* if (itemError) throw
InsertItem(t, delivery) ==
  /\ page[t].pc = "insertItem"
  /\ LET p == page[t]
         item == p.invoiceItems[p.item]
         served == delivery # "request_lost" /\ item.quantity # NaN
         message == IF delivery = "request_lost" THEN FetchFailed
                    ELSE IF item.quantity = NaN THEN NotNullViolation
                    ELSE IF delivery = "response_lost" THEN FetchFailed
                    ELSE ""
     IN  /\ invoice_items' = IF served
              THEN invoice_items \cup
                     {ItemRow(Cardinality(invoice_items) + 1, p.invoice, item)}
              ELSE invoice_items
         /\ log' = [log EXCEPT ![t] = Append(@,
              [op |-> "insert", line |-> p.item,
               item |-> item.stock_item_id, qty |-> item.quantity,
               served |-> served, ok |-> message = ""])]
         /\ page' = [page EXCEPT ![t] =
              IF message # "" THEN EndRun(p, message)
              ELSE [p EXCEPT !.pc = "rpc"]]
  /\ UNCHANGED <<stock_items, customers, invoices, clock, calls, stock0, runs,
                 touches, shop>>

\* the loop body's second await: supabase.rpc('decrement_stock', ...);
\* if (stockError) throw. The function's transaction is one step here: the
\* transactions on a row are serialized by its lock.
Rpc(t, delivery) ==
  /\ page[t].pc = "rpc"
  /\ LET p == page[t]
         item == p.invoiceItems[p.item]
         out == rpc_decrement_stock(stock_items, item.stock_item_id,
                                    item.quantity, SessionUser, clock)
         served == delivery # "request_lost"
         raised == out.result.kind = "error"
         message == IF delivery = "request_lost" THEN FetchFailed
                    ELSE IF raised THEN out.result.message
                    ELSE IF delivery = "response_lost" THEN FetchFailed
                    ELSE ""
     IN  /\ stock_items' = IF served THEN Settle(stock_items, out)
                                       ELSE stock_items
         /\ clock' = IF served THEN clock + 1 ELSE clock
         /\ log' = [log EXCEPT ![t] = Append(@,
              [op |-> "rpc", line |-> p.item,
               item |-> item.stock_item_id, qty |-> item.quantity,
               served |-> served /\ ~raised, ok |-> message = ""])]
         /\ page' = [page EXCEPT ![t] =
              IF message # "" THEN OnStockError(p, message)
              ELSE OnStockDone(p)]
  /\ UNCHANGED <<tables, calls, stock0, runs, touches, shop>>

\* ---------------------------------------------------------- specification
\* the shop's database before the first invoice of the day: two stock
\* entries, one customer, no invoice
InitInvoice ==
  /\ stock_items = [id \in {"A", "B"} |->
          IF id = "A" THEN StockRow("A", "U1", "rice", 5000, Cent)
                      ELSE StockRow("B", "U1", "oil", 12000, Cent)]
  /\ stock0 = stock_items
  /\ customers = {[id |-> 1, user_id |-> "U1", name |-> "Asha",
                   mobile_number |-> "9000000001"]}
  /\ invoices = {}
  /\ invoice_items = {}
  /\ clock = 1
  /\ NoCalls
  /\ NoClient

\* what the user and the network can do next in tab t
NextTab(t) ==
  \/ Mount(t)
  \/ \E id \in ItemIds : addItemToInvoice(t, id)
  \/ \E index \in 1..2, quantity \in FieldQuantities :
       updateItemQuantity(t, index, quantity)
  \/ \E index \in 1..2 : removeItem(t, index)
  \/ \E form \in CustomerForms : Save(t, form)
  \/ \E user \in {SessionUser, "null"} : GetUser(t, user)
  \/ \E delivery \in Deliveries :
       \/ InsertCustomer(t, delivery)
       \/ InsertInvoice(t, delivery)
       \/ InsertItem(t, delivery)
       \/ Rpc(t, delivery)

NextInvoice == \E t \in Tabs : NextTab(t)

SpecInvoice == InitInvoice /\ [][NextInvoice]_vars

\* ------------------------------------------- properties of handleSaveInvoice
\* the tab's latest handleSaveInvoice run passed validation and has ended
RunEnded(t) == log[t] # <<>> /\ ~page[t].saving
\* ... with the success toast and navigate("/invoices")
RunSaved(t) ==
  RunEnded(t) /\ page[t].pc = "away" /\ page[t].toast = InvoiceCreated
\* the number of line items of the submitted invoice
Lines(t) == log[t][1].line
\* the requests of kind op the run has issued for line i
Issued(t, op, i) ==
  {n \in 1..Len(log[t]) : log[t][n].op = op /\ log[t][n].line = i}
\* the run is over and its last request, of kind op, failed
EndedOn(t, op) ==
  /\ RunEnded(t)
  /\ log[t][Len(log[t])].op = op
  /\ ~log[t][Len(log[t])].ok

\* C12 as stated: in every handleSaveInvoice run that got past validation,
\* every line item of the submitted invoice has exactly one decrement_stock
\* call issued for it (looked at when the run is over).
C12_ExactlyOnePerLine ==
  \A t \in Tabs : RunEnded(t) =>
    \A i \in 1..Lines(t) : Cardinality(Issued(t, "rpc", i)) = 1

\* C12 amended: no line item ever has more than one decrement_stock call
\* issued for it; a run that ends with the success toast has issued exactly
\* one call for every line; a run that ends on a failed request has issued
\* exactly one call for each line before the failing one and none for the
\* lines after it.
C12_OncePerLine ==
  \A t \in Tabs : log[t] # <<>> =>
    /\ \A i \in 1..Lines(t) : Cardinality(Issued(t, "rpc", i)) <= 1
    /\ RunSaved(t) =>
         \A i \in 1..Lines(t) : Cardinality(Issued(t, "rpc", i)) = 1
    /\ \A op \in {"insert", "rpc"} : EndedOn(t, op) =>
         LET k == log[t][Len(log[t])].line
         IN  /\ \A i \in 1..(k - 1) : Cardinality(Issued(t, "rpc", i)) = 1
             /\ \A i \in (k + 1)..Lines(t) : Issued(t, "rpc", i) = {}

\* a run over two lines has ended with the success toast
C12_Witness ==
  \E t \in Tabs : RunSaved(t) /\ Lines(t) = 2

\* the rows the tab's latest run has left in the database
RunInvoices(t) == {r \in invoices : r.id = page[t].invoice}
RunItems(t) == {r \in invoice_items : r.invoice_id = page[t].invoice}

\* C13: whenever handleSaveInvoice ends because a decrement_stock call
\* failed, no invoice row and no invoice-item row of that submission remains
\* persisted.
C13_NothingPersisted ==
  \A t \in Tabs : EndedOn(t, "rpc") =>
    RunInvoices(t) = {} /\ RunItems(t) = {}


\* C14: no compensation. No step gives a quantity back, and the step in which
\* the decrement for line k fails leaves the stock entries of the lines 1..k-1
\* as the earlier calls of the run have left them.
C14_NoCompensation ==
  [][/\ \A k \in DOMAIN stock_items :
          stock_items'[k].quantity <= stock_items[k].quantity
     /\ \A t \in Tabs :
          page[t].pc = "rpc" /\ page'[t].pc = "editing" =>
            \A i \in 1..(page[t].item - 1) :
              LET id == page[t].invoiceItems[i].stock_item_id
              IN  stock_items'[id] = stock_items[id]]_vars

\* the decrement for line 2 has failed after the decrement for line 1 was
\* applied, and the entry of line 1 is still below its initial quantity
C14_Witness ==
  \E t \in Tabs :
    /\ EndedOn(t, "rpc")
    /\ log[t][Len(log[t])].line = 2
    /\ \E n \in Issued(t, "rpc", 1) : log[t][n].served
    /\ LET id == page[t].invoiceItems[1].stock_item_id
       IN  stock_items[id].quantity < stock0[id].quantity

RECURSIVE SumQuantity(_)
SumQuantity(rows) ==
  IF rows = {} THEN 0
  ELSE LET r == CHOOSE x \in rows : TRUE
       IN  r.quantity + SumQuantity(rows \ {r})

\* no handleSaveInvoice run is under way
NoRun == \A t \in Tabs : ~page[t].saving

\* C15: after any set of handleSaveInvoice runs, successful or failed, the
\* initial quantity of every stock entry minus its current quantity equals
\* the sum of the quantities of the persisted invoice-item rows that
\* reference it.
C15_StockMatchesItems ==
  NoRun =>
    \A id \in DOMAIN stock_items :
      stock0[id].quantity - stock_items[id].quantity
        = SumQuantity({r \in invoice_items : r.stock_item_id = id})

\* the step is a decrement_stock call of tab t
RpcStep(t) == page[t].pc = "rpc" /\ log'[t] # log[t]
\* the _quantity argument of the call the tab is about to issue
Carried(t) == page[t].invoiceItems[page[t].item].quantity

\* C19: every decrement_stock call issued by handleSaveInvoice carries a
\* quantity strictly greater than 0.
C19_PositiveQuantity ==
  [][\A t \in Tabs : RpcStep(t) => \E q \in Carried(t) : q > 0]_vars

\* what the validation does establish: when a run starts, every line of the
\* draft has a quantity above 0 and within the available quantity
C19_PositiveAtValidation ==
  [][\A t \in Tabs : ~page[t].saving /\ page'[t].saving =>
       \A i \in 1..Len(page[t].invoiceItems) :
         \E q \in page[t].invoiceItems[i].quantity :
           q > 0 /\ q <= page[t].invoiceItems[i].available_quantity]_vars

\* C20: line items are processed strictly in list order: the requests of a
\* run are insert 1, decrement 1, insert 2, decrement 2, ...; a request is
\* issued only after every earlier one has succeeded, and after the first
\* failed insert or decrement the run is over and issues nothing more.
C20_InOrder ==
  \A t \in Tabs : \A n \in 2..Len(log[t]) :
    LET e == log[t][n]
    IN  /\ e.op = IF n % 2 = 0 THEN "insert" ELSE "rpc"
        /\ e.line = n \div 2
        /\ e.line <= Lines(t)
        /\ n < Len(log[t]) => e.ok
        /\ ~e.ok => RunEnded(t)

\* the row of the second line has been inserted, after the first line's
\* decrement had succeeded, and the second line's decrement has failed
C20_Witness ==
  \E t \in Tabs :
    /\ Len(log[t]) = 5
    /\ log[t][3].op = "rpc" /\ log[t][3].ok
    /\ log[t][4].op = "insert" /\ log[t][4].line = 2
    /\ ~log[t][5].ok

\* C18: when a decrement_stock call ends with an error in place of a result,
\* no stock quantity has been changed by that call.
C18_ErrorLeavesStock ==
  \A t \in Tabs : \A n \in 1..Len(log[t]) :
    log[t][n].op = "rpc" /\ ~log[t][n].ok => ~log[t][n].served

\* ============================================== the dashboard and the stock page
\* src/components/LowStockAlerts.tsx, src/components/StockRefillDialog.tsx and
\* the Stock page, used by the owner of the stock next to one CreateInvoice tab.

\* ------------------------------------------------------- program constants
\* <LowStockAlerts threshold={10} />
LowStockThreshold == 10000
\* .max(999999.99) of stockItemSchema.quantity
MaxQuantity == 999999990

\* ---------------------------------------------------------------- bounds
\* refills submitted from either refill component in one behaviour
MaxRefills == 1
\* submissions of the stock form in one behaviour
MaxEdits == 1

\* ------------------------------------------------------------ input sets
\* parseFloat of a refill field: NaN, 0, 0.004, 0.01
RefillAmounts == {NaN, {0}, {4}, {Cent}}
\* parseFloat(formData.quantity) of the stock form: NaN, -0.01, 0, 0.01, 0.02
StockFormQuantities == {NaN, {0 - Cent}, {0}, {Cent}, {2 * Cent}}
\* the rows the dashboard can list
ShelfIds == {"A", "B"}

\* ------------------------------------------------------- pure functions
\* .update({quantity, updated_at}).eq("id", id) under the policy "Users can
\* update their own stock items"; the trigger overrides the updated_at sent
UpdateQuantity(tbl, id, quantity, caller, ts) ==
  [k \in DOMAIN tbl |->
     IF k = id /\ tbl[k].user_id = caller
       THEN update_updated_at_column(
              [tbl[k] EXCEPT !.quantity = Round2(quantity)], ts)
       ELSE tbl[k]]

\* .select("id, name, quantity, unit_type").lte("quantity", threshold)
LowStockItems(tbl) ==
  {[id |-> tbl[k].id, name |-> tbl[k].name, quantity |-> tbl[k].quantity,
    unit_type |-> tbl[k].unit_type] :
   k \in {j \in DOMAIN tbl : /\ tbl[j].user_id = SessionUser
                             /\ tbl[j].quantity <= LowStockThreshold}}

\* .select("id, name, quantity, unit_type, price") of the refill dialog
DialogItems(tbl) ==
  {[id |-> tbl[k].id, name |-> tbl[k].name, quantity |-> tbl[k].quantity,
    unit_type |-> tbl[k].unit_type, price |-> tbl[k].price] :
   k \in {j \in DOMAIN tbl : tbl[j].user_id = SessionUser}}

\* !isNaN(qty) && qty > 0
ValidAmount(amount) == \E q \in amount : q > 0

\* stockItemSchema.quantity: z.number().nonnegative().max(999999.99)
stockItemSchema(quantity) == \E q \in quantity : q >= 0 /\ q <= MaxQuantity

\* ---------------------------------------------------------------- actions
\* fetchLowStockItems, run when the component mounts and on every
\* postgres_changes event of stock_items
fetchLowStockItems ==
  /\ alerts' = [mounted |-> TRUE, lowStockItems |-> LowStockItems(stock_items)]
  /\ UNCHANGED <<editor, stock_items, tables, clock, calls, stock0, page, log, runs,
                 touches, dialog, refills, edits>>

\* handleQuickRefill(item) for a card of the list, with the text of its field
handleQuickRefill(id, amount, delivery) ==
  /\ alerts.mounted
  /\ refills.quick < MaxRefills
  /\ \E item \in alerts.lowStockItems : item.id = id
  /\ ~RowLocked(id, 0)
  /\ LET item == CHOOSE i \in alerts.lowStockItems : i.id = id
         served == delivery # "request_lost"
         new == UpdateQuantity(stock_items, id,
                  item.quantity + (CHOOSE q \in amount : TRUE),
                  SessionUser, clock)
     IN  IF ~ValidAmount(amount)
           THEN UNCHANGED <<stock_items, clock, alerts, refills>>
           ELSE /\ stock_items' = IF served THEN new ELSE stock_items
                /\ clock' = IF served THEN clock + 1 ELSE clock
                /\ refills' = [refills EXCEPT !.quick = @ + 1,
                     !.added[id] = IF served
                                     THEN @ + (CHOOSE q \in amount : TRUE)
                                     ELSE @]
                /\ alerts' = IF delivery = "delivered"
                     THEN [alerts EXCEPT !.lowStockItems = LowStockItems(new)]
                     ELSE alerts
  /\ UNCHANGED <<editor, tables, calls, stock0, page, log, runs, touches, dialog, edits>>

\* the dialog is opened: fetchStockItems, setSelectedItems([])
OpenDialog ==
  /\ dialog.updates = {}
  /\ refills.dialog < MaxRefills
  /\ dialog' = [open |-> TRUE, stockItems |-> DialogItems(stock_items),
                updates |-> {}, errors |-> FALSE]
  /\ UNCHANGED <<editor, stock_items, tables, clock, calls, stock0, page, log, runs,
                 touches, alerts, refills, edits>>

\* handleRefill with the items selected and the texts of their fields: the
\* updates of the valid items are sent together (Promise.all)
handleRefill(selected, refillQuantity) ==
  /\ dialog.open
  /\ dialog.updates = {}
  /\ refills.dialog < MaxRefills
  /\ LET validItems == {item \in dialog.stockItems :
                          /\ item.id \in selected
                          /\ ValidAmount(refillQuantity[item.id])}
     IN  /\ validItems # {}
         /\ dialog' = [dialog EXCEPT !.errors = FALSE, !.updates =
              {[id |-> item.id,
                amount |-> CHOOSE q \in refillQuantity[item.id] : TRUE,
                quantity |-> item.quantity
                               + (CHOOSE q \in refillQuantity[item.id] : TRUE)] :
               item \in validItems}]
  /\ refills' = [refills EXCEPT !.dialog = @ + 1]
  /\ UNCHANGED <<editor, stock_items, tables, clock, calls, stock0, page, log, runs,
                 touches, alerts, edits>>

\* one update of handleRefill is served; after the last one the dialog closes
\* unless an update has failed
UpdateDone(id, delivery) ==
  /\ \E u \in dialog.updates : u.id = id
  /\ ~RowLocked(id, 0)
  /\ LET u == CHOOSE v \in dialog.updates : v.id = id
         served == delivery # "request_lost"
         errors == dialog.errors \/ delivery # "delivered"
         rest == dialog.updates \ {u}
     IN  /\ stock_items' = IF served
              THEN UpdateQuantity(stock_items, id, u.quantity, SessionUser, clock)
              ELSE stock_items
         /\ clock' = IF served THEN clock + 1 ELSE clock
         /\ dialog' = IF rest = {} /\ ~errors
              THEN [open |-> FALSE, stockItems |-> dialog.stockItems,
                    updates |-> {}, errors |-> FALSE]
              ELSE [dialog EXCEPT !.updates = rest, !.errors = errors]
         /\ refills' = [refills EXCEPT !.added[id] =
              IF served THEN @ + u.amount ELSE @]
  /\ UNCHANGED <<editor, tables, calls, stock0, page, log, runs, touches, alerts,
                 edits>>

\* Stock.handleSubmit with an item being edited: the row gets the quantity
\* of the form
StockHandleSubmit(id, quantity, delivery) ==
  /\ edits < MaxEdits
  /\ id \in DOMAIN stock_items
  /\ stock_items[id].user_id = SessionUser
  /\ ~RowLocked(id, 0)
  /\ LET served == delivery # "request_lost" /\ stockItemSchema(quantity)
     IN  /\ stock_items' = IF served
              THEN UpdateQuantity(stock_items, id, CHOOSE q \in quantity : TRUE,
                                  SessionUser, clock)
              ELSE stock_items
         /\ clock' = IF served THEN clock + 1 ELSE clock
  /\ edits' = edits + 1
  /\ UNCHANGED <<editor, tables, calls, stock0, page, log, runs, touches, alerts,
                 dialog, refills>>

\* -------------------------------------------------------- specifications
\* one CreateInvoice tab next to the low-stock alerts and the stock page
NextShop ==
  \/ NextTab("t1")
  \/ fetchLowStockItems
  \/ \E id \in ShelfIds, amount \in RefillAmounts, delivery \in Deliveries :
       handleQuickRefill(id, amount, delivery)
  \/ \E id \in ShelfIds, quantity \in StockFormQuantities, delivery \in Deliveries :
       StockHandleSubmit(id, quantity, delivery)

SpecShop == InitInvoice /\ [][NextShop]_vars

\* the two refill components of the dashboard next to the stock page
NextDashboard ==
  \/ fetchLowStockItems
  \/ \E id \in ShelfIds, amount \in RefillAmounts, delivery \in Deliveries :
       handleQuickRefill(id, amount, delivery)
  \/ OpenDialog
  \/ \E selected \in SUBSET ShelfIds, refillQuantity \in [ShelfIds -> RefillAmounts] :
       handleRefill(selected, refillQuantity)
  \/ \E id \in ShelfIds, delivery \in Deliveries : UpdateDone(id, delivery)
  \/ \E id \in ShelfIds, quantity \in StockFormQuantities, delivery \in Deliveries :
       StockHandleSubmit(id, quantity, delivery)

SpecDashboard == InitInvoice /\ [][NextDashboard]_vars

\* ------------------------------------ properties of the stock's other writers
\* the last request the tab has issued
LastRequest(t) == log[t][Len(log[t])]
\* the step belongs to tab t
TabStep(t) == page'[t] # page[t] \/ log'[t] # log[t]
\* the WHERE clause of the call the tab is about to issue selects no row
ConditionFalse(t) ==
  LET id == page[t].invoiceItems[page[t].item].stock_item_id
  IN  \A q \in Carried(t) : stock_items[id].quantity < q

\* C11: no retry. A decrement_stock call whose condition is false at its
\* update attempt fails in that very step and changes no stock; once a call
\* of a run has failed, handleSaveInvoice issues no further request in that
\* run, whatever happens to the stock afterwards (the list of its requests
\* stays as it is until the page is loaded again or Save is pressed again,
\* which starts a new list); and a step of the tab
\* changes the stock only if it is a call that is being served then.
C11_NoRetry ==
  [][\A t \in Tabs :
       /\ RpcStep(t) /\ ConditionFalse(t) =>
            /\ ~LastRequest(t)'.ok
            /\ ~LastRequest(t)'.served
            /\ stock_items' = stock_items
       /\ (\E n \in 1..Len(log[t]) : log[t][n].op = "rpc" /\ ~log[t][n].ok) =>
            log'[t] = log[t] \/ Len(log'[t]) <= 1
       /\ TabStep(t) /\ stock_items' # stock_items =>
            RpcStep(t) /\ LastRequest(t)'.served]_vars

\* a call of the tab has failed for lack of stock, the run is over, and a
\* refill has since made the entry hold what the call asked for
C11_Witness ==
  \E t \in Tabs :
    /\ EndedOn(t, "rpc")
    /\ page[t].toast = InsufficientStock
    /\ touches = 0
    /\ refills.quick > 0
    /\ LET item == page[t].invoiceItems[LastRequest(t).line]
       IN  \E q \in item.quantity :
             stock_items[item.stock_item_id].quantity >= q

\* C16: a stock entry's quantity is lowered by successful decrement_stock
\* calls only: every step that lowers a quantity is a decrement_stock call
\* that is served and succeeds.
C16_OnlyDecrementLowers ==
  [][\A id \in DOMAIN stock_items :
       stock_items'[id].quantity < stock_items[id].quantity =>
         \E t \in Tabs : RpcStep(t) /\ LastRequest(t)'.served]_vars

\* the step serves the update of a refill (handleQuickRefill or one update of
\* handleRefill)
RefillWrite ==
  /\ clock' # clock
  /\ refills'.quick # refills.quick \/ dialog'.updates # dialog.updates

\* C17: the write performed by a refill leaves the entry's quantity strictly
\* greater than it was immediately before that write, and never negative.
C17_RefillsIncrease ==
  [][RefillWrite =>
       \A id \in DOMAIN stock_items :
         stock_items'[id] # stock_items[id] =>
           /\ stock_items'[id].quantity > stock_items[id].quantity
           /\ stock_items'[id].quantity >= 0]_vars


\* ===========================================================================
\* decrement_stock called directly. The function is exposed through the
\* project's RPC endpoint: any signed-in client can call it with any numeric
\* _quantity, not only with the quantities the create-invoice page sends.

\* ------------------------------------------------------------ input sets
\* _quantity of a direct call: -0.01, 0, 0.004, 0.01
DirectQuantities == {0 - Cent, 0, 4, Cent}

NextDirect ==
  \E c \in CallIds :
    \/ \E item \in ItemIds, qty \in DirectQuantities, caller \in Users :
         DecrementStock(c, item, qty, caller)
    \/ Commit(c)

SpecDirect == Init /\ [][NextDirect]_vars

\* C21: decrement_stock never increases the quantity of an entry, whatever
\* _quantity it is called with (zero and negative values included): no step
\* leaves a row with a larger quantity than it had.
C21_NeverIncreases ==
  [][\A id \in DOMAIN stock_items :
       stock_items'[id].quantity <= stock_items[id].quantity]_vars

\* the claim restricted to calls with _quantity >= 0: the commit of such a
\* call leaves no row with a larger quantity
C21_NonNegativeNeverIncreases ==
  [][\A c \in CallIds :
       pc[c] = "returning" /\ pc'[c] = "done" /\ args[c].qty >= 0 =>
         \A id \in DOMAIN stock_items :
           stock_items'[id].quantity <= stock_items[id].quantity]_vars

\* ===========================================================================
\* The draft of the create-invoice page on its own: one tab in which lines
\* are added, changed and removed, and nothing is saved.

\* ------------------------------------------------------------ input sets
\* parseFloat(e.target.value) of the quantity field: NaN, 0, 0.01, 0.5, 3
DraftQuantities == FieldQuantities \cup {{500}, {3000}}
\* parseFloat(e.target.value) of the price field: 0, 7, 1000000
FieldPrices == {0, 7000, MaxPrice + Cent}
\* the quantities stock entry A can have when the page is loaded: 0, 0.01, 2
ShelfQuantities == {0, Cent, 2000}

\* ---------------------------------------------------------------- actions
\* the line object is changed in place, like its quantity
updateItemPrice(t, index, price) ==
  /\ page[t].pc # "away"
  /\ ~page[t].saving
  /\ index \in 1..Len(page[t].invoiceItems)
  /\ LET p == page[t]
     IN  page' = [page EXCEPT ![t] =
           IF price <= 0 THEN p
           ELSE IF price > MaxPrice THEN p
           ELSE [p EXCEPT !.invoiceItems[index].price = price]]
  /\ UNCHANGED <<stock_items, tables, clock, calls, stock0, log, runs,
                 touches, shop>>

\* ---------------------------------------------------------- specification
InitDraft ==
  /\ \E qa \in ShelfQuantities :
       stock_items = [id \in {"A", "B"} |->
          IF id = "A" THEN StockRow("A", "U1", "rice", 5000, qa)
                      ELSE StockRow("B", "U1", "oil", 12000, Cent)]
  /\ stock0 = stock_items
  /\ customers = {[id |-> 1, user_id |-> "U1", name |-> "Asha",
                   mobile_number |-> "9000000001"]}
  /\ invoices = {}
  /\ invoice_items = {}
  /\ clock = 1
  /\ NoCalls
  /\ NoClient

NextDraft ==
  \/ Mount("t1")
  \/ \E id \in ItemIds : addItemToInvoice("t1", id)
  \/ \E index \in 1..2, quantity \in DraftQuantities :
       updateItemQuantity("t1", index, quantity)
  \/ \E index \in 1..2, price \in FieldPrices :
       updateItemPrice("t1", index, price)
  \/ \E index \in 1..2 : removeItem("t1", index)

SpecDraft == InitDraft /\ [][NextDraft]_vars

\* ===========================================================================
\* Existing invoices: the EditInvoice page (handleUpdateInvoice) and the
\* delete dialog of the Invoices page (handleDelete).
\*
\* editor.old and editor.new are the invoice's rows when the latest
\* handleUpdateInvoice run started and the rows that run inserts;
\* editor.deleted tells that a request of handleDelete has been served.

\* ---------------------------------------------------------------- bounds
\* handleUpdateInvoice runs that pass validation
MaxUpdates == 1

\* ------------------------------------------------------------ input sets
\* parseFloat(e.target.value) || 0 of the quantity field: 0, 0.01, 0.02
EditQuantities == {0, Cent, 2 * Cent}
\* the customer fields of the edit form pass customerSchema or do not
EditForms == {"valid", "invalid"}
InvoiceIds == {1}

UpdateFailed == "Failed to update invoice"
InvoiceUpdated == "Invoice updated successfully"

\* ------------------------------------------------------- pure functions
\* the rows of invoice_items with the given invoice_id
ItemsOf(rows, invoice) == {r \in rows : r.invoice_id = invoice}

\* the rows in the order the select returns them (by id)
RECURSIVE InOrder(_)
InOrder(rows) ==
  IF rows = {} THEN <<>>
  ELSE LET first == CHOOSE r \in rows : \A o \in rows : r.id <= o.id
       IN  <<first>> \o InOrder(rows \ {first})

\* the draft line fetchInvoiceData makes of a row: available_quantity is
\* stockMap.get(item.stock_item_id) || 0
LineOfRow(row, tbl) ==
  [stock_item_id |-> row.stock_item_id, item_name |-> row.item_name,
   price |-> row.price, quantity |-> {row.quantity},
   unit_type |-> row.unit_type,
   available_quantity |-> IF row.stock_item_id \in DOMAIN tbl
                            THEN tbl[row.stock_item_id].quantity ELSE 0]

\* itemsToInsert of handleUpdateInvoice as the table stores them
ItemsToInsert(items, invoice, base) ==
  {ItemRow(base + i, invoice, items[i]) : i \in 1..Len(items)}

\* catch { toast("Failed to update invoice") } finally { setSaving(false) }
EndUpdate(e, message) ==
  [e EXCEPT !.pc = "editing", !.saving = FALSE, !.toast = message]

\* ---------------------------------------------------------------- actions
\* the page is opened for an invoice: fetchInvoiceData, fetchStockItems
fetchInvoiceData(id) ==
  /\ editor.pc = "away"
  /\ editor.updates < MaxUpdates
  /\ \E r \in invoices : r.id = id
  /\ editor' = [editor EXCEPT !.pc = "editing", !.id = id, !.toast = "",
       !.stockItems = {stock_items[k] : k \in DOMAIN stock_items},
       !.invoiceItems =
          LET rows == InOrder(ItemsOf(invoice_items, id))
          IN  [i \in 1..Len(rows) |-> LineOfRow(rows[i], stock_items)]]
  /\ UNCHANGED <<stock_items, tables, clock, calls, stock0, page, log, runs,
                 touches, alerts, dialog, refills, edits>>

\* EditInvoice.addItemToInvoice: the dialog lists every stock item
EditAddItem(id) ==
  /\ editor.pc = "editing" /\ ~editor.saving
  /\ \E item \in editor.stockItems : item.id = id
  /\ LET item == CHOOSE i \in editor.stockItems : i.id = id
         existing == \E i \in 1..Len(editor.invoiceItems) :
                        editor.invoiceItems[i].stock_item_id = item.id
     IN  editor' = IF existing THEN editor
           ELSE [editor EXCEPT !.invoiceItems = Append(@, NewLine(item))]
  /\ UNCHANGED <<stock_items, tables, clock, calls, stock0, page, log, runs,
                 touches, alerts, dialog, refills, edits>>

\* EditInvoice.updateItemQuantity: invoiceItemSchema.shape.quantity.parse,
\* then the comparison with available_quantity
EditUpdateQuantity(index, quantity) ==
  /\ editor.pc = "editing" /\ ~editor.saving
  /\ index \in 1..Len(editor.invoiceItems)
  /\ editor' =
       IF quantity <= 0 THEN editor
       ELSE IF quantity > editor.invoiceItems[index].available_quantity
         THEN editor
       ELSE [editor EXCEPT !.invoiceItems[index].quantity = {quantity}]
  /\ UNCHANGED <<stock_items, tables, clock, calls, stock0, page, log, runs,
                 touches, alerts, dialog, refills, edits>>

\* EditInvoice.removeItem
EditRemoveItem(index) ==
  /\ editor.pc = "editing" /\ ~editor.saving
  /\ index \in 1..Len(editor.invoiceItems)
  /\ editor' = [editor EXCEPT !.invoiceItems =
       SubSeq(@, 1, index - 1) \o SubSeq(@, index + 1, Len(@))]
  /\ UNCHANGED <<stock_items, tables, clock, calls, stock0, page, log, runs,
                 touches, alerts, dialog, refills, edits>>

\* handleUpdateInvoice up to its first await: customerSchema, a draft with
\* at least one line, setSaving(true). The lines are not validated.
handleUpdateInvoice(form) ==
  /\ editor.pc = "editing" /\ ~editor.saving
  /\ editor.updates < MaxUpdates
  /\ editor' =
       IF form = "invalid" \/ Len(editor.invoiceItems) = 0 THEN editor
       ELSE [editor EXCEPT !.pc = "updateInvoice", !.saving = TRUE,
               !.updates = @ + 1,
               !.old = ItemsOf(invoice_items, editor.id),
               !.new = ItemsToInsert(editor.invoiceItems, editor.id,
                                     10 * (editor.updates + 1))]
  /\ UNCHANGED <<stock_items, tables, clock, calls, stock0, page, log, runs,
                 touches, alerts, dialog, refills, edits>>

\* await supabase.from("invoices").update({payment_type, total_amount})
\* .eq("id", id); if (invoiceError) throw invoiceError
UpdateInvoiceRow(delivery) ==
  /\ editor.pc = "updateInvoice"
  /\ LET served == delivery # "request_lost"
         total == calculateTotal(editor.invoiceItems)
     IN  invoices' = IF served
           THEN {IF r.id = editor.id
                   THEN [r EXCEPT !.total_amount =
                           Round2(CHOOSE n \in total : TRUE)]
                   ELSE r : r \in invoices}
           ELSE invoices
  /\ editor' = IF delivery = "delivered"
                 THEN [editor EXCEPT !.pc = "deleteItems"]
                 ELSE EndUpdate(editor, UpdateFailed)
  /\ UNCHANGED <<stock_items, customers, invoice_items, clock, calls, stock0,
                 page, log, runs, touches, alerts, dialog, refills, edits>>

\* await supabase.from("invoice_items").delete().eq("invoice_id", id): the
\* result is not looked at
DeleteItems(delivery) ==
  /\ editor.pc = "deleteItems"
  /\ invoice_items' = IF delivery # "request_lost"
       THEN invoice_items \ ItemsOf(invoice_items, editor.id)
       ELSE invoice_items
  /\ editor' = [editor EXCEPT !.pc = "insertItems"]
  /\ UNCHANGED <<stock_items, customers, invoices, clock, calls, stock0,
                 page, log, runs, touches, alerts, dialog, refills, edits>>

\* await supabase.from("invoice_items").insert(itemsToInsert);
\* if (itemsError) throw itemsError; success toast, navigate("/invoices").
\* The rows reference the invoice: the insert fails when it is gone.
InsertItems(delivery) ==
  /\ editor.pc = "insertItems"
  /\ LET exists == \E r \in invoices : r.id = editor.id
         served == delivery # "request_lost" /\ exists
     IN  /\ invoice_items' = IF served THEN invoice_items \cup editor.new
                                       ELSE invoice_items
         /\ editor' = IF delivery = "delivered" /\ exists
              THEN [editor EXCEPT !.pc = "away", !.saving = FALSE,
                      !.toast = InvoiceUpdated]
              ELSE EndUpdate(editor, UpdateFailed)
  /\ UNCHANGED <<stock_items, customers, invoices, clock, calls, stock0,
                 page, log, runs, touches, alerts, dialog, refills, edits>>

\* Faulty variant: the deleted lines' quantities are put back into stock.
DeleteInvoiceItemsRestoring(id, delivery) ==
  /\ editor.invoiceToDelete = 0
  /\ \E r \in invoices : r.id = id
  /\ LET rows == ItemsOf(invoice_items, id)
     IN  /\ invoice_items' = invoice_items \ rows
         /\ stock_items' = [k \in DOMAIN stock_items |->
              IF \E r \in rows : r.stock_item_id = k
                THEN [stock_items[k] EXCEPT !.quantity =
                        @ + (CHOOSE r \in rows : r.stock_item_id = k).quantity]
                ELSE stock_items[k]]
  /\ editor' = [editor EXCEPT !.deleted = TRUE, !.invoiceToDelete = id]
  /\ UNCHANGED <<customers, invoices, clock, calls, stock0, page, log, runs,
                 touches, alerts, dialog, refills, edits>>

\* handleDelete, first request: delete the invoice's rows of invoice_items;
\* on an error a toast and return
DeleteInvoiceItems(id, delivery) ==
  /\ editor.invoiceToDelete = 0
  /\ \E r \in invoices : r.id = id
  /\ LET served == delivery # "request_lost"
     IN  /\ invoice_items' = IF served
              THEN invoice_items \ ItemsOf(invoice_items, id)
              ELSE invoice_items
         /\ editor' = [editor EXCEPT
              !.deleted = @ \/ served,
              !.invoiceToDelete = IF delivery = "delivered" THEN id ELSE 0]
  /\ UNCHANGED <<stock_items, customers, invoices, clock, calls, stock0,
                 page, log, runs, touches, alerts, dialog, refills, edits>>

\* handleDelete, second request: delete the invoice (its remaining rows of
\* invoice_items go with it, ON DELETE CASCADE); the dialog closes
DeleteInvoice(delivery) ==
  /\ editor.invoiceToDelete # 0
  /\ LET served == delivery # "request_lost"
         id == editor.invoiceToDelete
     IN  /\ invoices' = IF served THEN {r \in invoices : r.id # id}
                                  ELSE invoices
         /\ invoice_items' = IF served
              THEN invoice_items \ ItemsOf(invoice_items, id)
              ELSE invoice_items
  /\ editor' = [editor EXCEPT !.invoiceToDelete = 0]
  /\ UNCHANGED <<stock_items, customers, clock, calls, stock0, page, log,
                 runs, touches, alerts, dialog, refills, edits>>

\* ---------------------------------------------------------- specification
\* the database after invoice 1 has sold 0.01 of A out of 0.03
InitEdit ==
  /\ stock_items = [id \in {"A", "B"} |->
          IF id = "A" THEN StockRow("A", "U1", "rice", 5000, 2 * Cent)
                      ELSE StockRow("B", "U1", "oil", 12000, Cent)]
  /\ stock0 = stock_items
  /\ customers = {[id |-> 1, user_id |-> "U1", name |-> "Asha",
                   mobile_number |-> "9000000001"]}
  /\ invoices = {[id |-> 1, user_id |-> "U1", customer_id |-> 1,
                  payment_type |-> "Cash", total_amount |-> 50]}
  /\ invoice_items = {ItemRow(1, 1, [NewLine(stock_items["A"])
                                       EXCEPT !.quantity = {Cent}])}
  /\ clock = 1
  /\ NoCalls
  /\ NoClient

NextEdit ==
  \/ \E id \in InvoiceIds : fetchInvoiceData(id)
  \/ \E id \in ItemIds : EditAddItem(id)
  \/ \E index \in 1..2, quantity \in EditQuantities :
       EditUpdateQuantity(index, quantity)
  \/ \E index \in 1..2 : EditRemoveItem(index)
  \/ \E form \in EditForms : handleUpdateInvoice(form)
  \/ \E delivery \in Deliveries :
       \/ UpdateInvoiceRow(delivery)
       \/ DeleteItems(delivery)
       \/ InsertItems(delivery)
       \/ DeleteInvoice(delivery)
  \/ \E id \in InvoiceIds, delivery \in Deliveries :
       DeleteInvoiceItems(id, delivery)

SpecEdit == InitEdit /\ [][NextEdit]_vars

\* ------------------------------------------- properties of the whole shop
\* the sum of the quantities of the first n requests of the tab's run that
\* are decrement_stock calls on entry id and were applied
RECURSIVE SoldBy(_, _, _)
SoldBy(t, id, n) ==
  IF n = 0 THEN 0
  ELSE LET e == log[t][n]
       IN  SoldBy(t, id, n - 1) +
             (IF e.op = "rpc" /\ e.served /\ e.item = id
                THEN CHOOSE q \in e.qty : TRUE ELSE 0)

\* the tab's list of requests holds every call the tab has made: it has had
\* at most one run and has not been loaded again since
OneRun(t) == runs[t] = 0 \/ (runs[t] = 1 /\ log[t] # <<>>)

\* C22: stock is conserved across refills and sales. With no stock-form edit
\* and no update of a refill under way, every entry holds its initial
\* quantity plus the amounts of the refills applied to it minus the
\* quantities of the decrement_stock calls applied to it.
C22_Conserved ==
  (edits = 0 /\ dialog.updates = {} /\ \A t \in Tabs : OneRun(t)) =>
    \A id \in ShelfIds :
      stock_items[id].quantity =
        stock0[id].quantity + refills.added[id]
          - (SoldBy("t1", id, Len(log["t1"])) + SoldBy("t2", id, Len(log["t2"])))

\* the messages of the error toast of handleSaveInvoice
SaveErrors == {FetchFailed, NotNullViolation, InsufficientStock}

\* the invoice insert, every line's insert and every line's decrement_stock
\* call of the tab's run succeeded
AllSucceeded(t) ==
  /\ \E r \in invoices : r.id = page[t].invoice
  /\ \A n \in 2..Len(log[t]) : log[t][n].ok /\ log[t][n].served
  /\ \A i \in 1..Lines(t) :
       /\ Issued(t, "insert", i) # {}
       /\ Issued(t, "rpc", i) # {}

\* C23: handleSaveInvoice shows "Invoice created successfully" and navigates
\* to the invoice list only if the invoice insert, every line's insert and
\* every line's decrement_stock call of the run succeeded; a request that
\* fails ends the run, and a run that ends otherwise stays on the page and,
\* unless it ended for want of a signed-in user, shows an error toast.
C23_SuccessOnlyIfAllSucceeded ==
  [][\A t \in Tabs :
       LET ended == page[t].saving /\ ~page'[t].saving
           saved == page'[t].pc = "away" /\ page'[t].toast = InvoiceCreated
       IN  /\ ended /\ saved => AllSucceeded(t)'
           /\ ended /\ ~saved =>
                /\ page'[t].pc = "editing"
                /\ page[t].pc = "getUser" \/ page'[t].toast \in SaveErrors
           /\ page[t].saving /\ log'[t] # log[t] /\ ~LastRequest(t)'.ok =>
                ended /\ ~saved
           /\ page[t].pc \in {"insertCustomer", "insertInvoice"} /\ ended =>
                ~saved]_vars

\* one run has ended with the success toast for an invoice of two lines and
\* another has ended with the toast of a failed decrement_stock call
C23_Witness ==
  \E t \in Tabs, u \in Tabs :
    /\ RunSaved(t) /\ Lines(t) = 2
    /\ EndedOn(u, "rpc") /\ page[u].toast = InsufficientStock

\* C25: every line of the draft has a quantity above 0 and not above the
\* available quantity that was read when the line was added.
C25_WithinAvailable ==
  \A t \in Tabs : \A i \in 1..Len(page[t].invoiceItems) :
    LET item == page[t].invoiceItems[i]
    IN  \E q \in item.quantity : 0 < q /\ q <= item.available_quantity

\* what updateItemQuantity does establish: a quantity it has stored is not a
\* number outside 0 < quantity <= available_quantity
C25_StoredWithinAvailable ==
  [][\A t \in Tabs : \A i \in 1..Len(page[t].invoiceItems) :
       (/\ Len(page'[t].invoiceItems) = Len(page[t].invoiceItems)
        /\ page'[t].invoiceItems[i].quantity # page[t].invoiceItems[i].quantity
        /\ page'[t].invoiceItems[i].stock_item_id
             = page[t].invoiceItems[i].stock_item_id) =>
         \A q \in page'[t].invoiceItems[i].quantity :
           0 < q /\ q <= page'[t].invoiceItems[i].available_quantity]_vars

\* C26: no two lines of the draft reference the same stock entry, and one
\* handleSaveInvoice run issues at most one decrement_stock call per entry.
C26_NoDuplicates ==
  \A t \in Tabs :
    /\ \A i \in 1..Len(page[t].invoiceItems) :
         \A j \in 1..Len(page[t].invoiceItems) :
           page[t].invoiceItems[i].stock_item_id
             = page[t].invoiceItems[j].stock_item_id => i = j
    /\ \A id \in ItemIds :
         Cardinality({n \in 1..Len(log[t]) :
                        log[t][n].op = "rpc" /\ log[t][n].item = id}) <= 1

\* a run on a draft of two lines has called decrement_stock for both of its
\* entries while the draft is still on the page
C26_Witness ==
  \E t \in Tabs :
    /\ Len(page[t].invoiceItems) = 2
    /\ \E n \in 1..Len(log[t]) : log[t][n].op = "rpc" /\ log[t][n].item = "A"
    /\ \E n \in 1..Len(log[t]) : log[t][n].op = "rpc" /\ log[t][n].item = "B"

\* a submission the validation has to turn down: no customer chosen, no
\* line, a line with a quantity or a price that is not above 0, a line with
\* a quantity above its available quantity, or invalid new-customer data
Unacceptable(items, form) ==
  \/ form \in {"none", "new_invalid"}
  \/ Len(items) = 0
  \/ \E i \in 1..Len(items) :
       \/ \E q \in items[i].quantity : q <= 0
       \/ items[i].price <= 0
       \/ \E q \in items[i].quantity : q > items[i].available_quantity

\* C24: validation precedes every write of handleSaveInvoice. Whatever the
\* draft and the customer part of the form, a submission that is
\* unacceptable is turned down by the validation; a run starts (saving is
\* set) only on a draft with at least one line whose lines all pass the
\* validation; and a tab that is not in a run inserts no row and issues no
\* request (its list of requests stays as it is or is started anew).
C24_ValidationFirst ==
  /\ [](\A t \in Tabs : \A form \in CustomerForms :
          Unacceptable(page[t].invoiceItems, form) =>
            Validate(page[t].invoiceItems, form) # "")
  /\ [][\A t \in Tabs :
          /\ ~page[t].saving /\ page'[t].saving =>
               /\ ~Unacceptable(page[t].invoiceItems, "selected")
               /\ Len(log'[t]) = 1
               /\ UNCHANGED <<stock_items, tables>>
          /\ TabStep(t) /\ ~page[t].saving =>
               /\ UNCHANGED <<stock_items, tables>>
               /\ log'[t] = log[t] \/ Len(log'[t]) <= 1]_vars

\* a tab holds a draft that the validation turns down (its second line asks
\* for more than is available), nothing of it has been written, and the
\* other tab's run on a valid draft has written its invoice
C24_Witness ==
  \E t \in Tabs, u \in Tabs :
    /\ page[t].pc = "editing" /\ runs[t] = 0 /\ log[t] = <<>>
    /\ Len(page[t].invoiceItems) = 2
    /\ Validate(page[t].invoiceItems, "selected") = "Cannot exceed available stock"
    /\ RunSaved(u)
    /\ \A r \in invoices : r.id = page[u].invoice

\* ------------------------------------------- properties of existing invoices
\* what the rows say, without their ids
Content(rows) ==
  {[stock_item_id |-> r.stock_item_id, price |-> r.price,
    quantity |-> r.quantity, subtotal |-> r.subtotal] : r \in rows}

RECURSIVE SumSubtotal(_)
SumSubtotal(rows) ==
  IF rows = {} THEN 0
  ELSE LET r == CHOOSE x \in rows : TRUE
       IN  r.subtotal + SumSubtotal(rows \ {r})

\* C27: operations on an existing invoice leave stock untouched: no step of
\* the EditInvoice page (handleUpdateInvoice included) or of handleDelete
\* changes a row of stock_items, whatever was changed in the lines.
C27_StockUntouched ==
  [][(editor' # editor \/ invoices' # invoices
        \/ invoice_items' # invoice_items) =>
       stock_items' = stock_items]_vars

\* the invoice has been updated with lines that differ from the old ones and
\* deleted afterwards, and the stock is what it was
C27_Witness ==
  /\ editor.updates > 0
  /\ editor.toast = InvoiceUpdated
  /\ Content(editor.old) # Content(editor.new)
  /\ editor.deleted
  /\ invoices = {}
  /\ invoice_items = {}
  /\ stock_items = stock0

\* C28: handleUpdateInvoice replaces the lines all-or-nothing. When a run
\* has ended (and no handleDelete has touched the invoice), the invoice's
\* rows of invoice_items are the rows it had before the run or the rows the
\* run inserts, and total_amount is the sum of their subtotals.
C28_AllOrNothing ==
  (/\ editor.updates > 0
   /\ ~editor.saving
   /\ ~editor.deleted
   /\ \E r \in invoices : r.id = editor.id) =>
    LET rows == ItemsOf(invoice_items, editor.id)
        invoice == CHOOSE r \in invoices : r.id = editor.id
    IN  /\ rows = editor.old \/ rows = editor.new
        /\ invoice.total_amount = SumSubtotal(rows)

\* ------------------------------------------------ handleSaveInvoice, fair
\* the request the run of tab t is waiting for is answered or fails
Answered(t) ==
  \/ \E user \in {SessionUser, "null"} : GetUser(t, user)
  \/ \E delivery \in Deliveries :
       \/ InsertCustomer(t, delivery)
       \/ InsertInvoice(t, delivery)
       \/ InsertItem(t, delivery)
       \/ Rpc(t, delivery)

\* one create-invoice tab in which every awaited request comes to an end
SpecSaveFair ==
  /\ InitInvoice
  /\ [][NextTab("t1")]_vars
  /\ WF_vars(Answered("t1"))

\* C29: saving is set before the first write of a run and is reset on every
\* exit path. A step that writes to the database is taken while saving is
\* set; a run in progress comes to an end; and when no run is in progress
\* saving is false, so the Save button is enabled.
C29_SavingReset ==
  /\ [][stock_items' # stock_items \/ customers' # customers
          \/ invoices' # invoices \/ invoice_items' # invoice_items =>
        page["t1"].saving]_vars
  /\ [](page["t1"].pc \in {"away", "editing"} <=> ~page["t1"].saving)
  /\ (page["t1"].saving ~> ~page["t1"].saving)

\* the run has ended at if (!user) return, without a toast, and the page is
\* back in editing with saving reset
C29_Witness ==
  /\ runs["t1"] = 1
  /\ Len(log["t1"]) = 1
  /\ page["t1"].pc = "editing"
  /\ page["t1"].toast = ""
  /\ ~page["t1"].saving

====
